---- MODULE Spec2Model ----
(***************************************************************************)
(* A model of codecollector (src/codecollector/codecollector.py).          *)
(*                                                                         *)
(* Strings are sequences of one-character strings, so that str.find,       *)
(* slicing, startswith, lstrip, split and the regular expressions of the   *)
(* program are computed character by character as the program does.        *)
(* Indices handed to Find and Slice are Python's (0-based, end exclusive). *)
(***************************************************************************)
EXTENDS Integers, Sequences, FiniteSets, TLC

\* ------------------------------------------------------------------ bounds
\* Pieces concatenated into one generated file text.
MaxPieces == 3
\* Files in one collected list handed to write_output.
MaxFiles == 2
\* Pattern lines spread over the .gitignore files of one tree.
MaxPatterns == 2

\* ------------------------------------------------------- string primitives
Min(S) == CHOOSE x \in S : \A y \in S : x <= y

\* s[a:b]
Slice(s, a, b) == SubSeq(s, a + 1, b)

\* s[a:]
SliceFrom(s, a) == SubSeq(s, a + 1, Len(s))

\* s[i:].startswith(sub)
StartsAt(s, sub, i) ==
    /\ i >= 0
    /\ i + Len(sub) <= Len(s)
    /\ \A k \in 1..Len(sub) : s[i + k] = sub[k]

\* s.find(sub, from): the least index at or after from, or -1
Find(s, sub, from) ==
    LET hits == {i \in from..(Len(s) - Len(sub)) : StartsAt(s, sub, i)}
    IN  IF hits = {} THEN -1 ELSE Min(hits)

\* Python's str.isspace() characters that occur in the modelled texts
IsSpace(c) == c \in {" ", "\t", "\n"}

\* s.strip() == ''
IsBlank(s) == \A k \in 1..Len(s) : IsSpace(s[k])

\* the regular-expression class \w
WordChars ==
    {"a", "b", "c", "d", "e", "f", "g", "h", "i", "j", "k", "l", "m", "n", "o",
     "p", "q", "r", "s", "t", "u", "v", "w", "x", "y", "z", "B", "Z", "_",
     "0", "1", "2", "3", "4", "5", "6", "7", "8", "9"}

IsWord(c) == c \in WordChars

\* ------------------------------------------------------------ comment markers
BlockOpen == <<"/", "*">>
DocOpen == <<"/", "*", "*">>
BlockClose == <<"*", "/">>
SlashSlash == <<"/", "/">>
Hash == <<"#">>
HtmlOpen == <<"<", "!", "-", "-">>
HtmlClose == <<"-", "-", ">">>
DashDash == <<"-", "-">>

\* ---------------------------------------------------------- remove_comments
\* The candidates list of one pass of the while loop, in probe order.
Candidates(line) ==
    LET probe == <<[type |-> "/*", pos |-> Find(line, BlockOpen, 0)],
                   [type |-> "/**", pos |-> Find(line, DocOpen, 0)],
                   [type |-> "//", pos |-> Find(line, SlashSlash, 0)],
                   [type |-> "#", pos |-> Find(line, Hash, 0)],
                   [type |-> "<!--", pos |-> Find(line, HtmlOpen, 0)],
                   [type |-> "--", pos |-> Find(line, DashDash, 0)]>>
        Found(c) == c.pos # -1
    IN  SelectSeq(probe, Found)

\* min(candidates, key=lambda x: x[1]): the first candidate of least position
Earliest(cands) ==
    LET least == Min({cands[k].pos : k \in 1..Len(cands)})
        first == Min({k \in 1..Len(cands) : cands[k].pos = least})
    IN  cands[first]

\* The `while True` loop over one line: the line left, whether a block or
\* HTML comment was left open on it, and the comment_type that opened it.
\* ScanLine stopping after the first excision instead of probing the joined
\* line again.
ScanLineNoRescan(line) ==
    LET cands == Candidates(line)
    IN  IF cands = <<>>
        THEN [line |-> line, opened |-> FALSE, type |-> ""]
        ELSE
          LET c == Earliest(cands)
              close == IF c.type = "<!--" THEN HtmlClose ELSE BlockClose
              width == IF c.type = "<!--" THEN 4 ELSE 2
              end_comment == Find(line, close, c.pos + width)
          IN  IF c.type \in {"//", "#", "--"}
              THEN [line |-> Slice(line, 0, c.pos), opened |-> FALSE, type |-> ""]
              ELSE IF end_comment # -1
              THEN [line |-> Slice(line, 0, c.pos)
                             \o SliceFrom(line, end_comment + Len(close)),
                    opened |-> FALSE, type |-> ""]
              ELSE [line |-> Slice(line, 0, c.pos), opened |-> TRUE, type |-> c.type]

RECURSIVE ScanLine(_)
ScanLine(line) ==
    LET cands == Candidates(line)
    IN  IF cands = <<>>
        THEN [line |-> line, opened |-> FALSE, type |-> ""]
        ELSE
          LET c == Earliest(cands)
          IN  IF c.type \in {"/*", "/**"}
              THEN LET end_comment == Find(line, BlockClose, c.pos + 2)
                   IN  IF end_comment # -1
                       THEN ScanLine(Slice(line, 0, c.pos)
                                     \o SliceFrom(line, end_comment + 2))
                       ELSE [line |-> Slice(line, 0, c.pos), opened |-> TRUE, type |-> c.type]
              ELSE IF c.type \in {"//", "#", "--"}
              THEN [line |-> Slice(line, 0, c.pos), opened |-> FALSE, type |-> ""]
              ELSE LET end_comment == Find(line, HtmlClose, c.pos + 4)
                   IN  IF end_comment # -1
                       THEN ScanLine(Slice(line, 0, c.pos)
                                     \o SliceFrom(line, end_comment + 3))
                       ELSE [line |-> Slice(line, 0, c.pos), opened |-> TRUE, type |-> c.type]

\* One iteration of `for line in lines`: what is appended to
\* uncommented_lines, and in_multiline_comment afterwards.
LineStep(line, in_multiline_comment) ==
    LET end_comment == Find(line, BlockClose, 0)
    IN  IF in_multiline_comment /\ end_comment = -1
        THEN [emit |-> <<>>, in_multiline_comment |-> TRUE]
        ELSE
          LET rest == IF in_multiline_comment
                      THEN SliceFrom(line, end_comment + 2)
                      ELSE line
              r == ScanLine(rest)
          IN  [emit |-> IF IsBlank(r.line) THEN <<>> ELSE <<r.line>>,
               in_multiline_comment |-> r.opened]

RECURSIVE RemoveFrom(_, _)
RemoveFrom(lines, in_multiline_comment) ==
    IF lines = <<>>
    THEN <<>>
    ELSE LET s == LineStep(Head(lines), in_multiline_comment)
         IN  s.emit \o RemoveFrom(Tail(lines), s.in_multiline_comment)

remove_comments(lines, file_extension) == RemoveFrom(lines, FALSE)

\* ------------------------------------------------------------ is_import_line
ImportWord == <<"i", "m", "p", "o", "r", "t">>
FromWord == <<"f", "r", "o", "m">>
PackageWord == <<"p", "a", "c", "k", "a", "g", "e">>
ScriptOpen == <<"<", "s", "c", "r", "i", "p", "t">>
ScriptClose == <<"<", "/", "s", "c", "r", "i", "p", "t", ">">>

ExtKt == <<".", "k", "t">>
ExtKts == <<".", "k", "t", "s">>
ExtJava == <<".", "j", "a", "v", "a">>
ExtJs == <<".", "j", "s">>
ExtTs == <<".", "t", "s">>
ExtSvelte == <<".", "s", "v", "e", "l", "t", "e">>

\* the index after the longest run of \s starting at index i
SkipSpaces(s, i) == Min({j \in i..Len(s) : j = Len(s) \/ ~IsSpace(s[j + 1])})

\* the index after the longest run of [\w.] starting at index i
SkipWordDots(s, i) ==
    Min({j \in i..Len(s) : j = Len(s) \/ ~(IsWord(s[j + 1]) \/ s[j + 1] = ".")})

\* s[lo:hi] is matched by \s* .* \s*  (. matches no newline)
SpacesAnySpaces(s, lo, hi) ==
    \E p \in lo..hi : \E q \in p..hi :
        /\ \A k \in lo..(p - 1) : IsSpace(s[k + 1])
        /\ \A k \in p..(q - 1) : s[k + 1] # "\n"
        /\ \A k \in q..(hi - 1) : IsSpace(s[k + 1])

\* ^\s*import\s+[\w.]+
MatchKotlinImport(line) ==
    LET a == SkipSpaces(line, 0)
        b == SkipSpaces(line, a + 6)
    IN  /\ StartsAt(line, ImportWord, a)
        /\ b > a + 6
        /\ SkipWordDots(line, b) > b

\* ^\s*import\s+[\w.]+;
MatchJavaImport(line) ==
    LET a == SkipSpaces(line, 0)
        b == SkipSpaces(line, a + 6)
        c == SkipWordDots(line, b)
    IN  /\ StartsAt(line, ImportWord, a)
        /\ b > a + 6
        /\ c > b
        /\ StartsAt(line, <<";">>, c)

\* The indices just after `from` for which  import\s+.*\s+from  matches
\* line[a:], the word import starting at index a.
FromEnds(line, a) ==
    IF ~StartsAt(line, ImportWord, a)
    THEN {}
    ELSE {c + 5 : c \in {c \in (a + 7)..(Len(line) - 5) :
                           /\ IsSpace(line[a + 7])
                           /\ IsSpace(line[c + 1])
                           /\ StartsAt(line, FromWord, c + 1)
                           /\ SpacesAnySpaces(line, a + 7, c)}}

\* ^\s*import\s+.*\s+from\s+.*;?
MatchJsImport(line) ==
    \E e \in FromEnds(line, SkipSpaces(line, 0)) :
        e < Len(line) /\ IsSpace(line[e + 1])

\* <script[^>]*>\s*import\s+.*\s+from\s+.*;\s*</script>   (matched at index 0)
MatchSvelteImport(line) ==
    LET g == Find(line, <<">">>, 7)
    IN  /\ StartsAt(line, ScriptOpen, 0)
        /\ g # -1
        /\ \E e \in FromEnds(line, SkipSpaces(line, g + 1)) :
             /\ e < Len(line) /\ IsSpace(line[e + 1])
             /\ \E d \in (e + 1)..(Len(line) - 1) :
                  /\ line[d + 1] = ";"
                  /\ SpacesAnySpaces(line, e + 1, d)
                  /\ StartsAt(line, ScriptClose, SkipSpaces(line, d + 1))

is_import_line(line, file_extension) ==
    IF file_extension \in {ExtKt, ExtKts} THEN MatchKotlinImport(line)
    ELSE IF file_extension = ExtJava THEN MatchJavaImport(line)
    ELSE IF file_extension \in {ExtJs, ExtTs} THEN MatchJsImport(line)
    ELSE IF file_extension = ExtSvelte THEN MatchSvelteImport(line)
    ELSE FALSE

\* -------------------------------------------------- should_remove_entire_line
\* ^\s*package\s  for .kt, .kts and .java
should_remove_entire_line(line, file_extension) ==
    LET a == SkipSpaces(line, 0)
    IN  /\ file_extension \in {ExtKt, ExtKts, ExtJava}
        /\ StartsAt(line, PackageWord, a)
        /\ a + 7 < Len(line)
        /\ IsSpace(line[a + 8])

\* ------------------------------------------------------------- file access
\* infile.readlines(): the text cut after each newline
RECURSIVE readlines(_)
readlines(text) ==
    LET nl == Find(text, <<"\n">>, 0)
    IN  IF text = <<>> THEN <<>>
        ELSE IF nl = -1 THEN <<text>>
        ELSE <<Slice(text, 0, nl + 1)>> \o readlines(SliceFrom(text, nl + 1))

\* file_path.suffix: from the last dot of the final path component
Suffix(file_path) ==
    LET slashes == {k \in 1..Len(file_path) : file_path[k] = "/"}
        start == IF slashes = {} THEN 0 ELSE CHOOSE k \in slashes : \A j \in slashes : j <= k
        name == SliceFrom(file_path, start)
        dots == {k \in 1..Len(name) : name[k] = "."}
        last == IF dots = {} THEN 0 ELSE CHOOSE k \in dots : \A j \in dots : j <= k
    IN  IF last > 1 /\ last < Len(name) THEN SubSeq(name, last, Len(name)) ELSE <<>>

\* ------------------------------------------------------------- write_output
\* The lines write_output writes for one readable file, one per
\* outfile.write(line) call.
FilterLines(lines, file_extension) ==
    LET Keep(line) == /\ ~is_import_line(line, file_extension)
                      /\ ~should_remove_entire_line(line, file_extension)
    IN  SelectSeq(remove_comments(lines, file_extension), Keep)

WrittenLines(file) == FilterLines(readlines(file.text), Suffix(file.path))

Header(file) == <<"\n", "\n">> \o file.path \o <<"\n", "\n">>

\* f"<!-- Could not read file: {e} -->\n", the exception's text as one token
Placeholder == <<"<!-- Could not read file: ", "e", " -->", "\n">>

Notice == <<"\n", "\n", "[No files found with the specified extensions.]", "\n">>

\* ------------------------------------------------------------------- state
VARIABLES
    collected_files,  \* write_output: the list of files, each [path, text, readable]
    wpc,              \* write_output: "start", "loop" or "done"
    idx,              \* write_output: the position of `for file_path in collected_files`
    out,              \* the strings written to the output, one per outfile.write call
    outfile,          \* the output destination: "unopened", "open" or "closed"
    gitignore,        \* the tree: the lines of the .gitignore file of each directory
    unreadable,       \* the tree: the directories whose .gitignore cannot be read
    extensions,       \* the -e/--extensions tuple
    kpc,              \* main: "patterns", "walk" or "done"
    gitignore_files,  \* collect_gitignore_patterns: the files rglob has yet to yield
    all_patterns,     \* collect_gitignore_patterns: the rebased patterns
    origin,           \* for each of all_patterns, its relative_base and source line
    opened,           \* the paths of the files opened so far
    ignore_spec,      \* the compiled PathSpec
    walk,             \* collect_files: the directories os.walk has yet to yield
    collected         \* collect_files: the list collected

wvars == <<collected_files, wpc, idx, out, outfile>>

kvars == <<gitignore, unreadable, extensions, kpc, gitignore_files, all_patterns,
           origin, opened, ignore_spec, walk, collected>>

vars == <<wvars, kvars>>

\* ------------------------------------------------------------- input texts
Pieces ==
    {BlockOpen, BlockClose, SlashSlash, Hash, HtmlOpen, HtmlClose, DashDash,
     <<"/">>, <<"*">>, <<"-">>, <<"a">>, <<" ">>, <<"\n">>}

\* the concatenations of at most n pieces
RECURSIVE TextsOf(_)
TextsOf(n) ==
    IF n = 0 THEN {<<>>}
    ELSE LET shorter == TextsOf(n - 1)
         IN  shorter \cup {t \o p : t \in shorter, p \in Pieces}

PathPy == <<"a", ".", "p", "y">>
PathJava == <<"b", ".", "j", "a", "v", "a">>
PathTxt == <<"n", ".", "t", "x", "t">>
PathJs == <<"s", ".", "j", "s">>
PathKt == <<"k", ".", "k", "t">>
PathSvelte == <<"v", ".", "s", "v", "e", "l", "t", "e">>
PathHtml == <<"i", ".", "h", "t", "m", "l">>

SamplePaths == {PathPy, PathJava, PathTxt, PathJs, PathKt, PathSvelte, PathHtml}

\* import os / (empty) / print(1)
TextPy ==
    <<"i", "m", "p", "o", "r", "t", " ", "o", "s", "\n", "\n",
      "p", "r", "i", "n", "t", "(", "1", ")", "\n">>

\* package com.x; / import com.y.Z; / /* header / comment */ / class B {}
TextJava ==
    <<"p", "a", "c", "k", "a", "g", "e", " ", "c", "o", "m", ".", "x", ";", "\n",
      "i", "m", "p", "o", "r", "t", " ", "c", "o", "m", ".", "y", ".", "Z", ";", "\n",
      "/", "*", " ", "h", "e", "a", "d", "e", "r", "\n",
      " ", "c", "o", "m", "m", "e", "n", "t", " ", "*", "/", "\n",
      "c", "l", "a", "s", "s", " ", "B", " ", "{", "}", "\n">>

\* a <!-- x / y --> b
TextHtmlBlock ==
    <<"a", " ", "<", "!", "-", "-", " ", "x", "\n",
      "y", " ", "-", "-", ">", " ", "b", "\n">>

\* a /* x / y / z */ b
TextBlock ==
    <<"a", " ", "/", "*", " ", "x", "\n", "y", "\n",
      "z", " ", "*", "/", " ", "b", "\n">>

\* x = 1 // c / y = 2
TextTrailing ==
    <<"x", " ", "=", " ", "1", " ", "/", "/", " ", "c", "\n",
      "y", " ", "=", " ", "2", "\n">>

\* a # b / (empty) /  c
TextHash == <<"a", " ", "#", " ", "b", "\n", "\n", " ", "c", "\n">>

\* import a from 'b'; / f();
TextJs ==
    <<"i", "m", "p", "o", "r", "t", " ", "a", " ", "f", "r", "o", "m", " ",
      "'", "b", "'", ";", "\n", "f", "(", ")", ";", "\n">>

\* /<!-- -->/ a / b
TextJoin ==
    <<"/", "<", "!", "-", "-", " ", "-", "-", ">", "/", " ", "a", "\n", "b", "\n">>

\*   package a / import a.b / val x
TextKt ==
    <<" ", " ", "p", "a", "c", "k", "a", "g", "e", " ", "a", "\n",
      "i", "m", "p", "o", "r", "t", " ", "a", ".", "b", "\n",
      "v", "a", "l", " ", "x", "\n">>

\* <script>import a from 'b';</script> / <p>
TextSvelte ==
    <<"<", "s", "c", "r", "i", "p", "t", ">", "i", "m", "p", "o", "r", "t", " ",
      "a", " ", "f", "r", "o", "m", " ", "'", "b", "'", ";",
      "<", "/", "s", "c", "r", "i", "p", "t", ">", "\n", "<", "p", ">", "\n">>

ScenarioTexts ==
    {TextPy, TextJava, TextHtmlBlock, TextBlock, TextTrailing, TextHash,
     TextJs, TextJoin, TextKt, TextSvelte}

File(path, text, readable) == [path |-> path, text |-> text, readable |-> readable]

\* the files handed to write_output one at a time
SingleFiles ==
    {File(p, t, TRUE) : p \in {PathTxt, PathJava}, t \in TextsOf(MaxPieces)}
    \cup {File(p, t, TRUE) : p \in SamplePaths, t \in ScenarioTexts}

\* the files of the longer collected lists
SampleFiles ==
    {File(PathPy, TextPy, TRUE), File(PathJava, TextJava, TRUE),
     File(PathHtml, TextHtmlBlock, TRUE), File(PathTxt, TextHash, FALSE),
     File(PathJs, TextTrailing, FALSE)}

RECURSIVE ListsOf(_, _)
ListsOf(S, n) ==
    IF n = 0 THEN {<<>>}
    ELSE LET shorter == ListsOf(S, n - 1)
         IN  shorter \cup {Append(l, f) : l \in shorter, f \in S}

\* ------------------------------------------------------------- write_output
WInit ==
    /\ collected_files \in ListsOf(SampleFiles, MaxFiles) \cup {<<f>> : f \in SingleFiles}
    /\ wpc = "start"
    /\ idx = 0
    /\ out = <<>>
    /\ outfile = "unopened"
    /\ gitignore = <<>>
    /\ unreadable = {}
    /\ extensions = <<>>
    /\ kpc = "idle"
    /\ gitignore_files = <<>>
    /\ all_patterns = <<>>
    /\ origin = <<>>
    /\ opened = {}
    /\ ignore_spec = <<>>
    /\ walk = <<>>
    /\ collected = <<>>

\* open(output_file, 'w') with files to write
OpenOutput ==
    /\ wpc = "start"
    /\ collected_files # <<>>
    /\ outfile' = "open"
    /\ out' = <<>>
    /\ idx' = 1
    /\ wpc' = "loop"
    /\ UNCHANGED <<collected_files, kvars>>

\* the whole of write_output when collected_files is empty
WriteNotice ==
    /\ wpc = "start"
    /\ collected_files = <<>>
    /\ out' = <<Notice>>
    /\ outfile' = "closed"
    /\ wpc' = "done"
    /\ UNCHANGED <<collected_files, idx, kvars>>

\* one iteration of the loop, the file read and filtered
WriteFileOk(file) ==
    /\ file.readable
    /\ out' = out \o <<Header(file)>> \o WrittenLines(file)
    /\ idx' = idx + 1
    /\ UNCHANGED <<collected_files, wpc, outfile, kvars>>

\* WriteFileError leaving the loop after the placeholder.
WriteFileErrorAbort(file) ==
    /\ ~file.readable
    /\ out' = out \o <<Header(file), Placeholder>>
    /\ idx' = Len(collected_files) + 1
    /\ UNCHANGED <<collected_files, wpc, outfile, kvars>>

\* one iteration of the loop, open() or readlines() raising
WriteFileError(file) ==
    /\ ~file.readable
    /\ out' = out \o <<Header(file), Placeholder>>
    /\ idx' = idx + 1
    /\ UNCHANGED <<collected_files, wpc, outfile, kvars>>

WriteFile ==
    /\ wpc = "loop"
    /\ idx <= Len(collected_files)
    /\ \/ WriteFileOk(collected_files[idx])
       \/ WriteFileError(collected_files[idx])

\* leaving the `with` block
CloseOutput ==
    /\ wpc = "loop"
    /\ idx > Len(collected_files)
    /\ outfile' = "closed"
    /\ wpc' = "done"
    /\ UNCHANGED <<collected_files, idx, out, kvars>>

WNext == OpenOutput \/ WriteNotice \/ WriteFile \/ CloseOutput

SpecWrite == WInit /\ [][WNext]_vars

\* ------------------------------------------------ write_output: properties
\* the default of -e/--extensions: the extensions the tool is written for
DefaultExtensions ==
    {ExtKt, ExtKts, ExtJava, ExtSvelte, ExtJs, ExtTs,
     <<".", "h", "t", "m", "l">>, <<".", "c", "s", "s">>, <<".", "p", "y">>,
     <<".", "s", "q">>, <<".", "s", "q", "m">>}

\* write_output has returned after writing exactly one file, which was read
OneFileDone ==
    /\ wpc = "done"
    /\ Len(collected_files) = 1
    /\ collected_files[1].readable

TheFile == collected_files[1]

\* the strings written after the path header
Body == Tail(out)

EndsWithNewline(s) == s # <<>> /\ s[Len(s)] = "\n"

\* C1: a file whose extension the tool has no stripping rule for (not one of
\* its default extensions) is written verbatim: the body is the file's lines,
\* none dropped or shortened.
C1_UnprofiledVerbatim ==
    (OneFileDone /\ Suffix(TheFile.path) \notin DefaultExtensions)
        => Body = readlines(TheFile.text)

\* C2: every written line keeps its source line's terminator: each written
\* line ends with a newline, except that the last one may lack it when the
\* file's last line does.
C2_TerminatorsKept ==
    OneFileDone =>
        \A k \in 1..Len(Body) :
            \/ EndsWithNewline(Body[k])
            \/ k = Len(Body) /\ ~EndsWithNewline(TheFile.text)

\* the close marker that matches a block-comment opener
CloseOf(type) == IF type = "<!--" THEN HtmlClose ELSE BlockClose

NonBlank(line) == IF IsBlank(line) THEN <<>> ELSE <<line>>

\* The file's first line leaves a block comment open and the matching close
\* marker first appears on the file's last line.
C4Case ==
    LET lines == readlines(TheFile.text)
        first == ScanLine(lines[1])
    IN  /\ OneFileDone
        /\ Len(lines) >= 2
        /\ first.opened
        /\ \A k \in 2..(Len(lines) - 1) : Find(lines[k], CloseOf(first.type), 0) = -1
        /\ Find(lines[Len(lines)], CloseOf(first.type), 0) # -1

\* What the claim expects of such a file: the text before the opener, nothing
\* of the lines between, and the text after the close marker under the rules
\* of the CODE state.
C4Expected ==
    LET lines == readlines(TheFile.text)
        ext == Suffix(TheFile.path)
        first == ScanLine(lines[1])
        close == CloseOf(first.type)
        last == lines[Len(lines)]
        after == SliceFrom(last, Find(last, close, 0) + Len(close))
        kept == NonBlank(first.line) \o NonBlank(ScanLine(after).line)
        Keep(line) == /\ ~is_import_line(line, ext)
                      /\ ~should_remove_entire_line(line, ext)
    IN  SelectSeq(kept, Keep)

\* C4: a block comment opened on line N and closed on line M suppresses
\* everything up to its matching close marker (`*/` for `/*` and `/**`, `-->`
\* for `<!--`), and processing resumes right after that marker.
C4_BlockCommentResumes == C4Case => Body = C4Expected

\* C7: the per-file filter is idempotent: filtering the lines that were
\* written gives back the same lines.
C7_FilterIdempotent ==
    OneFileDone => FilterLines(Body, Suffix(TheFile.path)) = Body

\* an excision has joined `/` and `/` into a `//` that was then stripped
C7_Witness ==
    /\ OneFileDone
    /\ TheFile.text = TextJoin
    /\ Body = <<<<"b", "\n">>>>

\* C8: for a.py holding  import os / (empty) / print(1)  the written body is
\* print(1) and its newline alone.
C8_PythonImportDropped ==
    (OneFileDone /\ TheFile.path = PathPy /\ TheFile.text = TextPy)
        => Body = <<<<"p", "r", "i", "n", "t", "(", "1", ")", "\n">>>>

\* what write_output is to have written for a list of files: per file its
\* header and then its filtered lines or, when it cannot be read, the
\* placeholder alone
RECURSIVE ExpectedOut(_)
ExpectedOut(files) ==
    IF files = <<>> THEN <<>>
    ELSE <<Header(Head(files))>>
         \o (IF Head(files).readable
             THEN FilterLines(readlines(Head(files).text), Suffix(Head(files).path))
             ELSE <<Placeholder>>)
         \o ExpectedOut(Tail(files))

\* C9: a read failure costs only the failing file: after each iteration the
\* output is the headers and bodies of the files so far, a failing file's
\* body being the placeholder alone, and on return every file has been
\* processed and the output is closed.
C9_ReadFailureContained ==
    /\ wpc = "loop" => out = ExpectedOut(SubSeq(collected_files, 1, idx - 1))
    /\ (wpc = "done" /\ collected_files # <<>>) =>
           /\ out = ExpectedOut(collected_files)
           /\ outfile = "closed"

\* write_output has returned for a list whose first file could not be read
\* and whose second file was read and written
C9_Witness ==
    /\ wpc = "done"
    /\ Len(collected_files) = 2
    /\ ~collected_files[1].readable
    /\ collected_files[2].readable
    /\ Len(out) > 3
    /\ out[2] = Placeholder
    /\ outfile = "closed"

\* --------------------------------------------------------------- the tree
Dot == <<".">>
Slash == <<"/">>
Sub == <<"s", "u", "b">>
Deep == <<"d", "e", "e", "p">>
Other == <<"o", "t", "h", "e", "r">>
Build == <<"b", "u", "i", "l", "d">>
Venv == <<"v", "e", "n", "v">>
SubDeep == <<"s", "u", "b", "/", "d", "e", "e", "p">>
OtherBuild == <<"o", "t", "h", "e", "r", "/", "b", "u", "i", "l", "d">>
GitignoreName == <<".", "g", "i", "t", "i", "g", "n", "o", "r", "e">>
DebugLog == <<"d", "e", "b", "u", "g", ".", "l", "o", "g">>
KeepLog == <<"k", "e", "e", "p", ".", "l", "o", "g">>
ExtPy == <<".", "p", "y">>
ExtLog == <<".", "l", "o", "g">>

\* current_dir / name, and Path(root) / file taken relative to start_dir
PathJoin(dir, name) == IF dir = Dot THEN name ELSE dir \o Slash \o name

\* The tree under start_dir, each directory as scandir lists it:
\*   .gitignore a.py debug.log
\*   sub/    .gitignore b.py debug.log keep.log
\*   sub/deep/   .gitignore c.py
\*   other/  debug.log d.py G.PY
\*   other/build/    E.PY
\*   build/  f.py
ListDirs(dir) ==
    IF dir = Dot THEN <<Sub, Other, Build>>
    ELSE IF dir = Sub THEN <<Deep>>
    ELSE IF dir = Other THEN <<Build>>
    ELSE <<>>

ListFiles(dir) ==
    IF dir = Dot THEN <<GitignoreName, <<"a", ".", "p", "y">>, DebugLog>>
    ELSE IF dir = Sub THEN <<GitignoreName, <<"b", ".", "p", "y">>, DebugLog, KeepLog>>
    ELSE IF dir = SubDeep THEN <<GitignoreName, <<"c", ".", "p", "y">>>>
    ELSE IF dir = Other THEN <<DebugLog, <<"d", ".", "p", "y">>, <<"G", ".", "P", "Y">>>>
    ELSE IF dir = OtherBuild THEN <<<<"E", ".", "P", "Y">>>>
    ELSE IF dir = Build THEN <<<<"f", ".", "p", "y">>>>
    ELSE <<>>

AllDirs == {Dot, Sub, SubDeep, Other, OtherBuild, Build}

\* the directories that hold a .gitignore, in the order Path.rglob yields
\* them (a directory before its subdirectories)
GitignoreDirs == <<Dot, Sub, SubDeep>>

\* the lines a .gitignore may hold
RawLines ==
    {<<"*", ".", "l", "o", "g">>,
     <<"/", "d", "e", "b", "u", "g", ".", "l", "o", "g">>,
     <<"!", "k", "e", "e", "p", ".", "l", "o", "g">>,
     <<"d", "e", "e", "p", "/">>,
     <<"#", " ", "x">>,
     <<"d", ".", "p", "y">>,
     <<"*", "*", "/", "d", "e", "b", "u", "g", ".", "l", "o", "g">>,
     <<"*">>}

\* the contents of the .gitignore files, at most n lines in all
RECURSIVE GitignoresOf(_)
GitignoresOf(n) ==
    IF n = 0 THEN {[d \in {Dot, Sub, SubDeep} |-> <<>>]}
    ELSE LET fewer == GitignoresOf(n - 1)
         IN  fewer \cup {[g EXCEPT ![d] = Append(g[d], l)] :
                           g \in fewer, d \in {Dot, Sub, SubDeep}, l \in RawLines}

\* the default of -x/--exclude
exclude_dirs == {Build, Venv}

\* ------------------------------------------------------- pathspec: compiling
\* PathSpec.from_lines('gitwildmatch', ...) and match_file are the pathspec
\* library's; they are modelled by the regular expression the library builds
\* for a pattern, as a sequence of atoms, for patterns of literal characters,
\* `*`, `?`, `**`, `/` and a leading `!`.
RECURSIVE Split(_, _)
Split(s, sep) ==
    LET i == Find(s, <<sep>>, 0)
    IN  IF i = -1 THEN <<s>>
        ELSE <<Slice(s, 0, i)>> \o Split(SliceFrom(s, i + 1), sep)

\* s.strip()
RECURSIVE Strip(_)
Strip(s) ==
    IF s = <<>> THEN s
    ELSE IF IsSpace(s[1]) THEN Strip(Tail(s))
    ELSE IF IsSpace(s[Len(s)]) THEN Strip(SubSeq(s, 1, Len(s) - 1))
    ELSE s

\* s.lstrip('/')
RECURSIVE LStripSlash(_)
LStripSlash(s) ==
    IF s # <<>> /\ s[1] = "/" THEN LStripSlash(Tail(s)) ELSE s

StarStar == <<"*", "*">>

\* a run of `**` segments collapsed to one
RECURSIVE CollapseStars(_)
CollapseStars(segs) ==
    IF Len(segs) < 2 THEN segs
    ELSE IF segs[1] = StarStar /\ segs[2] = StarStar
         THEN CollapseStars(Tail(segs))
         ELSE <<segs[1]>> \o CollapseStars(Tail(segs))

\* the glob of one segment: `*` is [^/]*, `?` is [^/], the rest literal
SegmentAtoms(seg) ==
    [k \in 1..Len(seg) |->
        IF seg[k] = "*" THEN [a |-> "star"]
        ELSE IF seg[k] = "?" THEN [a |-> "any"]
        ELSE [a |-> "lit", c |-> seg[k]]]

\* The atoms of the segments from the i-th on.  "dirs" is (?:.+/)?, "mid" is
\* (?:/.+)?, "tail" is (?:/.*)?, "slashall" is /.*, "plus" is [^/]+.
RECURSIVE BuildAtoms(_, _, _)
BuildAtoms(segs, i, need_slash) ==
    IF i > Len(segs) THEN <<>>
    ELSE
      LET seg == segs[i]
          end == Len(segs)
          sl == IF need_slash THEN <<[a |-> "lit", c |-> "/"]>> ELSE <<>>
          tl == IF i = end THEN <<[a |-> "tail"]>> ELSE <<>>
      IN  IF seg = StarStar
          THEN IF i = 1 /\ i = end THEN <<[a |-> "plus"], [a |-> "tail"]>>
               ELSE IF i = 1 THEN <<[a |-> "dirs"]>> \o BuildAtoms(segs, i + 1, FALSE)
               ELSE IF i = end THEN <<[a |-> "slashall"]>>
               ELSE <<[a |-> "mid"]>> \o BuildAtoms(segs, i + 1, TRUE)
          ELSE IF seg = <<"*">>
          THEN sl \o <<[a |-> "plus"]>> \o tl \o BuildAtoms(segs, i + 1, TRUE)
          ELSE sl \o SegmentAtoms(seg) \o tl \o BuildAtoms(segs, i + 1, TRUE)

\* GitWildMatchPattern of one line: include is "yes", "no" (a negation) or
\* "none" (a line that matches nothing), atoms the regular expression.
CompilePattern(line) ==
    LET pattern == Strip(line)
        negated == pattern # <<>> /\ pattern[1] = "!"
        body == IF negated THEN Tail(pattern) ELSE pattern
        split == CollapseStars(Split(body, "/"))
        rooted == IF split[1] = <<>> THEN Tail(split)
                  ELSE IF (Len(split) = 1 \/ (Len(split) = 2 /\ split[2] = <<>>))
                          /\ split[1] # StarStar
                       THEN <<StarStar>> \o split
                       ELSE split
        segs == IF Len(rooted) > 1 /\ rooted[Len(rooted)] = <<>>
                THEN [rooted EXCEPT ![Len(rooted)] = StarStar]
                ELSE rooted
    IN  IF pattern = <<>> \/ pattern[1] = "#" \/ pattern = Slash
        THEN [include |-> "none", atoms |-> <<>>]
        ELSE IF split = <<StarStar, <<>>>>
        THEN [include |-> IF negated THEN "no" ELSE "yes",
              atoms |-> <<[a |-> "some"], [a |-> "lit", c |-> "/"], [a |-> "rest"]>>]
        ELSE [include |-> IF negated THEN "no" ELSE "yes",
              atoms |-> BuildAtoms(segs, 1, FALSE)]

\* PathSpec.from_lines('gitwildmatch', all_patterns)
from_lines(patterns) == [k \in 1..Len(patterns) |-> CompilePattern(patterns[k])]

\* -------------------------------------------------------- pathspec: matching
NoSlash(s, from, to) == \A k \in (from + 1)..to : s[k] # "/"

\* the lengths of s[pos:] an atom may consume
Consumes(atom, s, pos) ==
    LET left == Len(s) - pos
    IN  IF atom.a = "lit" THEN {n \in {1} : left >= 1 /\ s[pos + 1] = atom.c}
        ELSE IF atom.a = "any" THEN {n \in {1} : left >= 1 /\ s[pos + 1] # "/"}
        ELSE IF atom.a = "star" THEN {n \in 0..left : NoSlash(s, pos, pos + n)}
        ELSE IF atom.a = "plus" THEN {n \in 1..left : NoSlash(s, pos, pos + n)}
        ELSE IF atom.a = "dirs" THEN {0} \cup {n \in 2..left : s[pos + n] = "/"}
        ELSE IF atom.a = "mid" THEN {0} \cup {n \in 2..left : s[pos + 1] = "/"}
        ELSE IF atom.a = "tail" THEN {0} \cup {n \in 1..left : s[pos + 1] = "/"}
        ELSE IF atom.a = "slashall" THEN {n \in 1..left : s[pos + 1] = "/"}
        ELSE IF atom.a = "some" THEN 1..left
        ELSE 0..left

\* ^atoms$ matched against s from index pos, the atoms from the k-th on
RECURSIVE MatchAtoms(_, _, _, _)
MatchAtoms(atoms, k, s, pos) ==
    IF k > Len(atoms) THEN pos = Len(s)
    ELSE \E n \in Consumes(atoms[k], s, pos) : MatchAtoms(atoms, k + 1, s, pos + n)

\* the patterns of spec that match path, by position
Matching(spec, path) ==
    {k \in 1..Len(spec) :
        spec[k].include # "none" /\ MatchAtoms(spec[k].atoms, 1, path, 0)}

\* ignore_spec.match_file(path): the last matching pattern decides
match_file(spec, path) ==
    LET hits == Matching(spec, path)
    IN  hits # {} /\ spec[CHOOSE k \in hits : \A j \in hits : j <= k].include = "yes"

\* ------------------------------------------------ collect_gitignore_patterns
\* [p for p in lines if p.strip() and not p.strip().startswith('#')]
PatternLines(lines) ==
    LET IsPattern(p) == Strip(p) # <<>> /\ Strip(p)[1] # "#"
    IN  SelectSeq(lines, IsPattern)

\* Rebase appending the pattern as it stands, whatever the directory.
RebaseNoBase(p, relative_base) == LStripSlash(p)

\* One pass of `for p in patterns`: the pattern appended to new_patterns.
\* Both branches strip the leading slashes and prefix relative_base.
Rebase(p, relative_base) ==
    IF relative_base \in {<<>>, Dot}
    THEN LStripSlash(p)
    ELSE relative_base \o Slash \o LStripSlash(p)

\* One pass of `for gitignore in gitignore_files`.
ReadGitignore ==
    /\ kpc = "patterns"
    /\ gitignore_files # <<>>
    /\ LET relative_base == Head(gitignore_files)
           patterns == PatternLines(gitignore[relative_base])
       IN  /\ opened' = opened \cup {PathJoin(relative_base, GitignoreName)}
           /\ IF relative_base \in unreadable
              THEN UNCHANGED <<all_patterns, origin>>
              ELSE /\ all_patterns' = all_patterns \o
                        [k \in 1..Len(patterns) |-> Rebase(patterns[k], relative_base)]
                   /\ origin' = origin \o
                        [k \in 1..Len(patterns) |->
                            [base |-> relative_base, line |-> patterns[k]]]
    /\ gitignore_files' = Tail(gitignore_files)
    /\ UNCHANGED <<gitignore, unreadable, extensions, kpc, ignore_spec, walk,
                   collected, wvars>>

\* The return of collect_gitignore_patterns and the start of collect_files.
CompileSpec ==
    /\ kpc = "patterns"
    /\ gitignore_files = <<>>
    /\ ignore_spec' = from_lines(all_patterns)
    /\ walk' = <<Dot>>
    /\ collected' = <<>>
    /\ kpc' = "walk"
    /\ UNCHANGED <<gitignore, unreadable, extensions, gitignore_files,
                   all_patterns, origin, opened, wvars>>

\* -------------------------------------------------------------- collect_files
UpperCase ==
    <<"A", "B", "C", "D", "E", "F", "G", "H", "I", "J", "K", "L", "M",
      "N", "O", "P", "Q", "R", "S", "T", "U", "V", "W", "X", "Y", "Z">>
LowerCase ==
    <<"a", "b", "c", "d", "e", "f", "g", "h", "i", "j", "k", "l", "m",
      "n", "o", "p", "q", "r", "s", "t", "u", "v", "w", "x", "y", "z">>

\* file.lower()
Lower(s) ==
    [k \in 1..Len(s) |->
        IF \E i \in 1..26 : UpperCase[i] = s[k]
        THEN LowerCase[CHOOSE i \in 1..26 : UpperCase[i] = s[k]]
        ELSE s[k]]

\* s.endswith(suffixes), suffixes a tuple
EndsWithAny(s, suffixes) ==
    \E e \in 1..Len(suffixes) : StartsAt(s, suffixes[e], Len(s) - Len(suffixes[e]))

\* KeptDirs pruning by the matcher alone.
KeptDirsNoExclude(current_dir, spec) ==
    LET Keep(d) == ~match_file(spec, PathJoin(current_dir, d) \o Slash)
    IN  SelectSeq(ListDirs(current_dir), Keep)

\* dirs[:] after pruning: neither excluded by name nor matched as a directory
KeptDirs(current_dir, spec) ==
    LET Keep(d) == /\ d \notin exclude_dirs
                   /\ ~match_file(spec, PathJoin(current_dir, d) \o Slash)
    IN  SelectSeq(ListDirs(current_dir), Keep)

\* the files of current_dir appended to collected
KeptFiles(current_dir, spec, exts) ==
    LET Keep(file) == /\ ~match_file(spec, PathJoin(current_dir, file))
                      /\ EndsWithAny(Lower(file), exts)
    IN  SelectSeq(ListFiles(current_dir), Keep)

\* One pass of `for root, dirs, files in os.walk(start_dir)`; the paths are
\* kept relative to start_dir.
WalkDir ==
    /\ kpc = "walk"
    /\ walk # <<>>
    /\ LET current_dir == Head(walk)
           dirs == KeptDirs(current_dir, ignore_spec)
           files == KeptFiles(current_dir, ignore_spec, extensions)
       IN  /\ walk' = [k \in 1..Len(dirs) |-> PathJoin(current_dir, dirs[k])]
                      \o Tail(walk)
           /\ collected' = collected \o
                  [k \in 1..Len(files) |-> PathJoin(current_dir, files[k])]
    /\ UNCHANGED <<gitignore, unreadable, extensions, kpc, gitignore_files,
                   all_patterns, origin, opened, ignore_spec, wvars>>

\* The return of collect_files.
WalkDone ==
    /\ kpc = "walk"
    /\ walk = <<>>
    /\ kpc' = "done"
    /\ UNCHANGED <<gitignore, unreadable, extensions, gitignore_files,
                   all_patterns, origin, opened, ignore_spec, walk, collected, wvars>>

KInit ==
    /\ gitignore \in GitignoresOf(MaxPatterns)
    /\ unreadable \in {{}, {Sub}}
    /\ extensions \in {<<ExtPy>>, <<ExtPy, ExtLog>>}
    /\ kpc = "patterns"
    /\ gitignore_files = GitignoreDirs
    /\ all_patterns = <<>>
    /\ origin = <<>>
    /\ opened = {}
    /\ ignore_spec = <<>>
    /\ walk = <<>>
    /\ collected = <<>>
    /\ collected_files = <<>>
    /\ wpc = "idle"
    /\ idx = 0
    /\ out = <<>>
    /\ outfile = "unopened"

KNext == ReadGitignore \/ CompileSpec \/ WalkDir \/ WalkDone

SpecWalk == KInit /\ [][KNext]_vars

\* ------------------------------------------------- tree walk: properties
Range(s) == {s[k] : k \in 1..Len(s)}

\* the first n segments joined by "/"
RECURSIVE JoinSegs(_, _)
JoinSegs(segs, n) ==
    IF n = 1 THEN segs[1] ELSE JoinSegs(segs, n - 1) \o Slash \o segs[n]

\* the directories above path, each with its trailing "/"
AncestorQueries(path) ==
    LET segs == Split(path, "/")
    IN  {JoinSegs(segs, n) \o Slash : n \in 1..(Len(segs) - 1)}

\* every path of the tree as the matcher is asked about it
TreeQueries ==
    UNION {{PathJoin(d, ListFiles(d)[k]) : k \in 1..Len(ListFiles(d))} : d \in AllDirs}
    \cup {d \o Slash : d \in AllDirs \ {Dot}}

Inside(path, dir) == StartsAt(path, dir \o Slash, 0)

StarLog == <<"*", ".", "l", "o", "g">>
SubDebugLog == PathJoin(Sub, DebugLog)
OtherDebugLog == PathJoin(Other, DebugLog)

\* C3: a line `!p` of a .gitignore in a directory rel below the root is
\* rebased to `!rel/p`, and compiles to a negation.
C3_NegationKept ==
    \A k \in 1..Len(all_patterns) :
        (origin[k].line[1] = "!" /\ origin[k].base \notin {<<>>, Dot}) =>
            /\ all_patterns[k] =
                   <<"!">> \o origin[k].base \o Slash \o Tail(origin[k].line)
            /\ CompilePattern(all_patterns[k]).include = "no"

\* C5: every collected path ends (lower-cased) with an allowed extension, has
\* no excluded directory name on its way, and neither it nor a directory above
\* it (asked with a trailing "/") is matched by the ignore matcher.
C5_CollectedAdmissible ==
    \A k \in 1..Len(collected) :
        LET path == collected[k]
            segs == Split(path, "/")
        IN  /\ EndsWithAny(Lower(segs[Len(segs)]), extensions)
            /\ \A j \in 1..(Len(segs) - 1) : segs[j] \notin exclude_dirs
            /\ ~match_file(ignore_spec, path)
            /\ \A q \in AncestorQueries(path) : ~match_file(ignore_spec, q)

\* the walk has ended having pruned sub/deep by the matcher, build and
\* other/build by name and the .log files by the matcher
C5_Witness ==
    /\ kpc = "done"
    /\ ExtLog \in Range(extensions)
    /\ match_file(ignore_spec, SubDeep \o Slash)
    /\ match_file(ignore_spec, OtherDebugLog)
    /\ Range(collected) = {<<"a", ".", "p", "y">>,
                           PathJoin(Sub, <<"b", ".", "p", "y">>),
                           PathJoin(Other, <<"d", ".", "p", "y">>),
                           PathJoin(Other, <<"G", ".", "P", "Y">>)}

C10_NothingOpenedInsideIgnored ==
    kpc \in {"walk", "done"} =>
        \A f \in opened :
            \A q \in AncestorQueries(f) : ~match_file(ignore_spec, q)

====
